---- MODULE Spec2Model ----
(***************************************************************************)
(* Two Temporal workflows of samples-python:                               *)
(*   - UppercaseWorkflowUpdate (reqrespupdate/workflow.py): a request      *)
(*     queue drained through an activity, with continue-as-new;            *)
(*   - GreetingWorkflow (message_passing/introduction/workflows.py): a     *)
(*     language selection with a validated update, an async update under   *)
(*     an asyncio.Lock, and an approval-gated result.                      *)
(* A workflow runs its coroutines cooperatively: a handler or the run      *)
(* coroutine is interrupted only at an await that suspends.  Strings are   *)
(* sequences of one-character strings, so that str.upper() is computed.    *)
(***************************************************************************)
EXTENDS Integers, Sequences, FiniteSets, TLC

(* ------------------------------ bounds --------------------------------- *)
\* total number of request signals delivered over the life of the workflow
MaxRequests == 10
\* number of requests that may sit in requests_buffer at once
MaxBuffer == 2
\* number of set_language_using_activity updates accepted by one workflow
MaxUpdates == 2

(* ----------------------- reqrespupdate/workflow.py --------------------- *)
VARIABLES
    requests_buffer,    \* self.requests_buffer: list[Request]
    responses_map,      \* self.responses_map: dict[str, str]
    request_count,      \* self.request_count
    pending_updates,    \* self.pending_updates
    pc,                 \* where the run coroutine stands
    req,                \* run's local `req` while the activity is awaited
    generation,         \* number of continue-as-new restarts so far
    outstanding,        \* activity invocations scheduled and not yet resolved
    enqueued,           \* history: number of request signals delivered
    finished,           \* history: number of requests whose activity resolved
    last_done,          \* history: the request that resolved last, and how
    committed_ids,      \* history: ids whose result the drain loop committed
    signalled_in_flight \* history: a request signal arrived during an activity
                        \* of this generation

qvars == <<requests_buffer, responses_map, request_count, pending_updates, pc,
           req, generation, outstanding, enqueued, finished, last_done,
           committed_ids, signalled_in_flight>>

(* --------------- message_passing/introduction/workflows.py ------------- *)
VARIABLES
    approved_for_release,   \* self.approved_for_release
    approver_name,          \* self.approver_name
    greetings,              \* self.greetings: dict[Language, str]
    language,               \* self.language
    lock_holder,            \* self.lock: the handler holding it, 0 when free
    lock_waiters,           \* self.lock: handlers waiting in acquire(), FIFO
    handlers,               \* set_language_using_activity invocations
    accepted,               \* number of those invocations accepted so far
    run_pc,                 \* where the run coroutine stands
    run_result,             \* what run returned
    update_log,             \* history: outcome of the last set_language update
    swaps,                  \* history: invocations in the order they swapped
    approved_in_flight      \* history: approve arrived with a handler in flight

gvars == <<approved_for_release, approver_name, greetings, language,
           lock_holder, lock_waiters, handlers, accepted, run_pc, run_result,
           update_log, swaps, approved_in_flight>>

vars == <<qvars, gvars>>

\* request ids and inputs the callers send
Ids == {"a", "b"}
Foo0 == <<"f", "o", "o", "0">>
Ab == <<"A", "b">>
Inputs == {Foo0, Ab}
\* a result an external caller of the set_response update may send
Spoof == <<"Z">>
EmptyStr == <<>>

Request(id, input) == [id |-> id, input |-> input]
NoReq == [id |-> "", input |-> EmptyStr]

LowerCase == <<"a", "b", "f", "o">>
UpperCase == <<"A", "B", "F", "O">>

\* str.upper() on one character
UpperChar(c) ==
    IF \E i \in 1..Len(LowerCase) : LowerCase[i] = c
    THEN UpperCase[CHOOSE i \in 1..Len(LowerCase) : LowerCase[i] = c]
    ELSE c

\* uppercase_activity: text.upper()
uppercase_activity(text) == [i \in 1..Len(text) |-> UpperChar(text[i])]

\* dict assignment d[k] = v
DictSet(d, k, v) == [x \in (DOMAIN d) \cup {k} |-> IF x = k THEN v ELSE d[x]]

EmptyDict == [x \in {} |-> EmptyStr]

\* self.threshold_for_continue
threshold_for_continue == 5

\* UppercaseParams(initial_message, previous_responses)
UppercaseParams(previous_responses) ==
    [initial_message |-> EmptyStr, previous_responses |-> previous_responses]

\* as UppercaseWorkflowInit, but previous_responses is not loaded
UppercaseWorkflowInit_Fresh(params) ==
    [requests_buffer |-> <<>>,
     responses_map |-> EmptyDict,
     request_count |-> 0,
     pending_updates |-> 0]

\* __init__: the state a generation starts in
UppercaseWorkflowInit(params) ==
    [requests_buffer |-> <<>>,
     responses_map |-> IF DOMAIN params.previous_responses # {}
                       THEN params.previous_responses ELSE EmptyDict,
     request_count |-> 0,
     pending_updates |-> 0]

\* get_response query: pure read
get_response(req_id) ==
    IF req_id \in DOMAIN responses_map THEN responses_map[req_id] ELSE EmptyStr

\* the run coroutine is suspended at an await, so a handler may run
Suspended == pc \in {"wait", "activity"}

QInit ==
    LET s == UppercaseWorkflowInit(UppercaseParams(EmptyDict)) IN
    /\ requests_buffer = s.requests_buffer
    /\ responses_map = s.responses_map
    /\ request_count = s.request_count
    /\ pending_updates = s.pending_updates
    /\ pc = "wait"
    /\ req = NoReq
    /\ generation = 0
    /\ outstanding = 0
    /\ enqueued = 0
    /\ finished = 0
    /\ last_done = [n |-> 0, req |-> NoReq, ok |-> FALSE]
    /\ committed_ids = {}
    /\ signalled_in_flight = FALSE

\* signal request(req): append to the buffer
request(r) ==
    /\ Suspended
    /\ enqueued < MaxRequests
    /\ Len(requests_buffer) < MaxBuffer
    /\ requests_buffer' = Append(requests_buffer, r)
    /\ enqueued' = enqueued + 1
    /\ signalled_in_flight' = (signalled_in_flight \/ pc = "activity")
    /\ UNCHANGED gvars
    /\ UNCHANGED <<responses_map, request_count, pending_updates, pc, req,
                   generation, outstanding, finished, last_done,
                   committed_ids>>

\* update set_response(req_id, result) sent by an external caller
set_response(req_id, result) ==
    /\ Suspended
    /\ responses_map' = DictSet(responses_map, req_id, result)
    /\ UNCHANGED gvars
    /\ UNCHANGED <<requests_buffer, request_count, pending_updates, pc, req,
                   generation, outstanding, enqueued, finished, last_done,
                   committed_ids, signalled_in_flight>>

\* run: wait_condition(lambda: len(self.requests_buffer) > 0) is satisfied
WaitCondition ==
    /\ pc = "wait"
    /\ Len(requests_buffer) > 0
    /\ pc' = "loop"
    /\ UNCHANGED gvars
    /\ UNCHANGED <<requests_buffer, responses_map, request_count,
                   pending_updates, req, generation, outstanding, enqueued,
                   finished, last_done, committed_ids, signalled_in_flight>>

\* as Dequeue, with pop() for pop(0): the newest request is taken
Dequeue_Lifo ==
    /\ pc = "loop"
    /\ Len(requests_buffer) > 0
    /\ req' = requests_buffer[Len(requests_buffer)]
    /\ requests_buffer' = SubSeq(requests_buffer, 1, Len(requests_buffer) - 1)
    /\ request_count' = request_count + 1
    /\ pending_updates' = pending_updates + 1
    /\ outstanding' = outstanding + 1
    /\ pc' = "activity"
    /\ UNCHANGED gvars
    /\ UNCHANGED <<responses_map, generation, enqueued, finished, last_done,
                   committed_ids, signalled_in_flight>>

\* run: `while self.requests_buffer` is true: pop(0), count, schedule activity
Dequeue ==
    /\ pc = "loop"
    /\ Len(requests_buffer) > 0
    /\ req' = Head(requests_buffer)
    /\ requests_buffer' = Tail(requests_buffer)
    /\ request_count' = request_count + 1
    /\ pending_updates' = pending_updates + 1
    /\ outstanding' = outstanding + 1
    /\ pc' = "activity"
    /\ UNCHANGED gvars
    /\ UNCHANGED <<responses_map, generation, enqueued, finished, last_done,
                   committed_ids, signalled_in_flight>>

\* as ActivitySuccess, but the request's input is stored, not the result
ActivitySuccess_StoresInput ==
    /\ pc = "activity"
    /\ responses_map' = DictSet(responses_map, req.id, req.input)
    /\ committed_ids' = committed_ids \cup {req.id}
    /\ pending_updates' = pending_updates - 1
    /\ outstanding' = outstanding - 1
    /\ finished' = finished + 1
    /\ last_done' = [n |-> finished + 1, req |-> req, ok |-> TRUE]
    /\ req' = NoReq
    /\ pc' = "loop"
    /\ UNCHANGED gvars
    /\ UNCHANGED <<requests_buffer, request_count, generation, enqueued,
                   signalled_in_flight>>

\* run: the activity returned; await self.set_response(req.id, result); finally
ActivitySuccess ==
    /\ pc = "activity"
    /\ LET result == uppercase_activity(req.input) IN
       responses_map' = DictSet(responses_map, req.id, result)
    /\ committed_ids' = committed_ids \cup {req.id}
    /\ pending_updates' = pending_updates - 1
    /\ outstanding' = outstanding - 1
    /\ finished' = finished + 1
    /\ last_done' = [n |-> finished + 1, req |-> req, ok |-> TRUE]
    /\ req' = NoReq
    /\ pc' = "loop"
    /\ UNCHANGED gvars
    /\ UNCHANGED <<requests_buffer, request_count, generation, enqueued,
                   signalled_in_flight>>

\* as ActivityFailure, but the failed request is put back to be retried
ActivityFailure_Retries ==
    /\ pc = "activity"
    /\ requests_buffer' = Append(requests_buffer, req)
    /\ pending_updates' = pending_updates - 1
    /\ outstanding' = outstanding - 1
    /\ finished' = finished + 1
    /\ last_done' = [n |-> finished + 1, req |-> req, ok |-> FALSE]
    /\ req' = NoReq
    /\ pc' = "loop"
    /\ UNCHANGED gvars
    /\ UNCHANGED <<responses_map, request_count, generation, enqueued,
                   committed_ids, signalled_in_flight>>

\* as ActivityFailure, but the decrement is not in a `finally`
ActivityFailure_NoDecrement ==
    /\ pc = "activity"
    /\ outstanding' = outstanding - 1
    /\ finished' = finished + 1
    /\ last_done' = [n |-> finished + 1, req |-> req, ok |-> FALSE]
    /\ req' = NoReq
    /\ pc' = "loop"
    /\ UNCHANGED gvars
    /\ UNCHANGED <<requests_buffer, responses_map, request_count,
                   pending_updates, generation, enqueued, committed_ids,
                   signalled_in_flight>>

\* run: the activity raised; except: log; finally
ActivityFailure ==
    /\ pc = "activity"
    /\ pending_updates' = pending_updates - 1
    /\ outstanding' = outstanding - 1
    /\ finished' = finished + 1
    /\ last_done' = [n |-> finished + 1, req |-> req, ok |-> FALSE]
    /\ req' = NoReq
    /\ pc' = "loop"
    /\ UNCHANGED gvars
    /\ UNCHANGED <<requests_buffer, responses_map, request_count, generation,
                   enqueued, committed_ids, signalled_in_flight>>

\* as Drained, but the drain loop is an `if`: it is left after one request
Drained_AfterOne ==
    /\ pc = "loop"
    /\ pc' = "check"
    /\ UNCHANGED gvars
    /\ UNCHANGED <<requests_buffer, responses_map, request_count,
                   pending_updates, req, generation, outstanding, enqueued,
                   finished, last_done, committed_ids, signalled_in_flight>>

\* run: `while self.requests_buffer` is false: fall out of the drain loop
Drained ==
    /\ pc = "loop"
    /\ Len(requests_buffer) = 0
    /\ pc' = "check"
    /\ UNCHANGED gvars
    /\ UNCHANGED <<requests_buffer, responses_map, request_count,
                   pending_updates, req, generation, outstanding, enqueued,
                   finished, last_done, committed_ids, signalled_in_flight>>

\* as ShouldContinueAsNew, with `or` for `and`
ShouldContinueAsNew_Or ==
    request_count >= threshold_for_continue \/ pending_updates = 0

\* as ShouldContinueAsNew, with `>` for `>=`
ShouldContinueAsNew_Strict ==
    request_count > threshold_for_continue /\ pending_updates = 0

\* the `if` that guards continue-as-new
ShouldContinueAsNew ==
    request_count >= threshold_for_continue /\ pending_updates = 0

\* as ContinueAsNew, but request_count is carried into the next generation
ContinueAsNew_KeepsCount ==
    /\ pc = "check"
    /\ ShouldContinueAsNew
    /\ LET new_params == UppercaseParams(responses_map)
           s == UppercaseWorkflowInit(new_params) IN
       /\ requests_buffer' = s.requests_buffer
       /\ responses_map' = s.responses_map
       /\ pending_updates' = s.pending_updates
    /\ generation' = generation + 1
    /\ pc' = "wait"
    /\ signalled_in_flight' = FALSE
    /\ UNCHANGED gvars
    /\ UNCHANGED <<request_count, req, outstanding, enqueued, finished,
                   last_done, committed_ids>>

\* run: continue_as_new(new_params), then __init__ of the next generation
ContinueAsNew ==
    /\ pc = "check"
    /\ ShouldContinueAsNew
    /\ LET new_params == UppercaseParams(responses_map)
           s == UppercaseWorkflowInit(new_params) IN
       /\ requests_buffer' = s.requests_buffer
       /\ responses_map' = s.responses_map
       /\ request_count' = s.request_count
       /\ pending_updates' = s.pending_updates
    /\ generation' = generation + 1
    /\ pc' = "wait"
    /\ signalled_in_flight' = FALSE
    /\ UNCHANGED gvars
    /\ UNCHANGED <<req, outstanding, enqueued, finished, last_done,
                   committed_ids>>

\* run: the `if` is false: back to the top of `while True`
LoopAgain ==
    /\ pc = "check"
    /\ ~ShouldContinueAsNew
    /\ pc' = "wait"
    /\ UNCHANGED gvars
    /\ UNCHANGED <<requests_buffer, responses_map, request_count,
                   pending_updates, req, generation, outstanding, enqueued,
                   finished, last_done, committed_ids, signalled_in_flight>>

(* ------------------------- GreetingWorkflow ---------------------------- *)
\* members of the Language enum used here; CHINESE and ENGLISH are built in
Language == {"CHINESE", "ENGLISH", "FRENCH", "PORTUGUESE"}
\* Python's None
None == "None"
\* greetings the call_greeting_service activity may return
ServiceGreetings == {"Bonjour, monde"}
\* names carried by ApproveInput
Approvers == {"alice", "bob"}

HandlerIds == 1..MaxUpdates
NoHandler ==
    [pc |-> "unused", lang |-> None, ret |-> None, err |-> None,
     overlapped |-> {}]

\* an invocation of set_language_using_activity is suspended at an await
InFlight(i) == handlers[i].pc \in {"lockwait", "activity"}

\* workflow.all_handlers_finished()
all_handlers_finished == \A i \in HandlerIds : ~InFlight(i)

\* the workflow has not completed: signals and updates are still delivered
Running == run_pc = "waiting"

\* __init__
GInit ==
    /\ approved_for_release = FALSE
    /\ approver_name = None
    /\ greetings = [l \in {"CHINESE", "ENGLISH"} |->
                      IF l = "CHINESE" THEN "Ni hao, shijie"
                                       ELSE "Hello, world"]
    /\ language = "ENGLISH"
    /\ lock_holder = 0
    /\ lock_waiters = <<>>
    /\ handlers = [i \in HandlerIds |-> NoHandler]
    /\ accepted = 0
    /\ run_pc = "waiting"
    /\ run_result = None
    /\ update_log = [arg |-> None, outcome |-> "none", ret |-> None]
    /\ swaps = <<>>
    /\ approved_in_flight = FALSE

\* get_language query: pure read
get_language == language

\* signal approve(input)
approve(name) ==
    /\ Running
    /\ approved_for_release' = TRUE
    /\ approver_name' = name
    /\ approved_in_flight' = (approved_in_flight \/ ~all_handlers_finished)
    /\ UNCHANGED <<greetings, language, lock_holder, lock_waiters, handlers,
                   accepted, run_pc, run_result, update_log, swaps>>
    /\ UNCHANGED qvars

\* as validate_language, but nothing is rejected
validate_language_AcceptsAll(l) == l \in Language

\* validate_language: TRUE when the validator does not raise
validate_language(l) == l \in DOMAIN greetings

\* as SetLanguageBody, but the language is read back after the assignment
SetLanguageBody_ReturnsNew(l) ==
    /\ language' = l
    /\ update_log' = [arg |-> l, outcome |-> "completed", ret |-> l]

\* body of set_language: swap and return the previous language
SetLanguageBody(l) ==
    /\ language' = l
    /\ update_log' = [arg |-> l, outcome |-> "completed", ret |-> language]

\* update set_language(language), validator first
set_language(l) ==
    /\ Running
    /\ IF validate_language(l)
       THEN SetLanguageBody(l)
       ELSE /\ update_log' = [arg |-> l, outcome |-> "rejected", ret |-> None]
            /\ UNCHANGED language
    /\ UNCHANGED <<approved_for_release, approver_name, greetings, lock_holder,
                   lock_waiters, handlers, accepted, run_pc, run_result, swaps,
                   approved_in_flight>>
    /\ UNCHANGED qvars

\* as set_language_using_activity, but the activity is scheduled without
\* taking self.lock
set_language_using_activity_NoLock(l) ==
    /\ Running
    /\ accepted < MaxUpdates
    /\ LET i == accepted + 1
           h == [pc |-> "unused", lang |-> l, ret |-> None, err |-> None,
                 overlapped |-> {j \in HandlerIds : InFlight(j)}] IN
       /\ accepted' = i
       /\ IF l \in DOMAIN greetings
          THEN /\ language' = l
               /\ handlers' = [handlers EXCEPT
                                 ![i] = [h EXCEPT !.pc = "done",
                                                  !.ret = language]]
               /\ swaps' = Append(swaps, i)
               /\ UNCHANGED <<lock_holder, lock_waiters>>
          ELSE /\ handlers' = [handlers EXCEPT
                                 ![i] = [h EXCEPT !.pc = "activity"]]
               /\ UNCHANGED <<language, lock_holder, lock_waiters, swaps>>
    /\ UNCHANGED <<approved_for_release, approver_name, greetings, run_pc,
                   run_result, update_log, approved_in_flight>>
    /\ UNCHANGED qvars

\* as set_language_using_activity, without the `language not in
\* self.greetings` test: every invocation goes through the lock and the
\* activity
set_language_using_activity_AlwaysLocks(l) ==
    /\ Running
    /\ accepted < MaxUpdates
    /\ LET i == accepted + 1
           h == [pc |-> "unused", lang |-> l, ret |-> None, err |-> None,
                 overlapped |-> {j \in HandlerIds : InFlight(j)}] IN
       /\ accepted' = i
       /\ IF lock_holder = 0 /\ lock_waiters = <<>>
          THEN /\ lock_holder' = i
               /\ handlers' = [handlers EXCEPT
                                 ![i] = [h EXCEPT !.pc = "activity"]]
               /\ UNCHANGED <<language, lock_waiters, swaps>>
          ELSE /\ lock_waiters' = Append(lock_waiters, i)
               /\ handlers' = [handlers EXCEPT
                                 ![i] = [h EXCEPT !.pc = "lockwait"]]
               /\ UNCHANGED <<language, lock_holder, swaps>>
    /\ UNCHANGED <<approved_for_release, approver_name, greetings, run_pc,
                   run_result, update_log, approved_in_flight>>
    /\ UNCHANGED qvars

\* update set_language_using_activity(language) is accepted and runs up to
\* its first suspension: to the end when the language is mapped, to the
\* activity when the lock is free, to the lock's wait queue otherwise
set_language_using_activity(l) ==
    /\ Running
    /\ accepted < MaxUpdates
    /\ LET i == accepted + 1
           h == [pc |-> "unused", lang |-> l, ret |-> None, err |-> None,
                 overlapped |-> {j \in HandlerIds : InFlight(j)}] IN
       /\ accepted' = i
       /\ IF l \in DOMAIN greetings
          THEN /\ language' = l
               /\ handlers' = [handlers EXCEPT
                                 ![i] = [h EXCEPT !.pc = "done",
                                                  !.ret = language]]
               /\ swaps' = Append(swaps, i)
               /\ UNCHANGED <<lock_holder, lock_waiters>>
          ELSE IF lock_holder = 0 /\ lock_waiters = <<>>
          THEN /\ lock_holder' = i
               /\ handlers' = [handlers EXCEPT
                                 ![i] = [h EXCEPT !.pc = "activity"]]
               /\ UNCHANGED <<language, lock_waiters, swaps>>
          ELSE /\ lock_waiters' = Append(lock_waiters, i)
               /\ handlers' = [handlers EXCEPT
                                 ![i] = [h EXCEPT !.pc = "lockwait"]]
               /\ UNCHANGED <<language, lock_holder, swaps>>
    /\ UNCHANGED <<approved_for_release, approver_name, greetings, run_pc,
                   run_result, update_log, approved_in_flight>>
    /\ UNCHANGED qvars

\* Lock.release(): the first waiter is woken, takes the lock and, having
\* tested `language not in self.greetings` before it waited, schedules its
\* activity; hs is the handler table after the releasing handler's own change
LockRelease(hs) ==
    IF lock_waiters = <<>>
    THEN /\ lock_holder' = 0
         /\ lock_waiters' = <<>>
         /\ handlers' = hs
    ELSE /\ lock_holder' = Head(lock_waiters)
         /\ lock_waiters' = Tail(lock_waiters)
         /\ handlers' = [hs EXCEPT ![Head(lock_waiters)].pc = "activity"]

\* as HandlerFails, but the lock is taken without `async with` and an
\* exception leaves it held
HandlerFails_KeepsLock(i, e) ==
    /\ handlers' = [handlers EXCEPT ![i].pc = "failed", ![i].err = e]
    /\ UNCHANGED <<lock_holder, lock_waiters, greetings, language, swaps>>

\* the handler leaves `async with self.lock` by exception e: the update fails
HandlerFails(i, e) ==
    /\ LockRelease([handlers EXCEPT ![i].pc = "failed", ![i].err = e])
    /\ UNCHANGED <<greetings, language, swaps>>

\* the handler inserts the greeting, leaves the lock, swaps and returns
HandlerInserts(i, greeting) ==
    /\ greetings' = [l \in (DOMAIN greetings) \cup {handlers[i].lang} |->
                       IF l = handlers[i].lang THEN greeting ELSE greetings[l]]
    /\ LockRelease([handlers EXCEPT ![i].pc = "done", ![i].ret = language])
    /\ language' = handlers[i].lang
    /\ swaps' = Append(swaps, i)

\* execute_activity(call_greeting_service) returns a greeting or None
ActivityReturns(i, greeting) ==
    /\ Running
    /\ handlers[i].pc = "activity"
    /\ IF greeting = None
       THEN HandlerFails(i, "ApplicationError")
       ELSE HandlerInserts(i, greeting)
    /\ UNCHANGED <<approved_for_release, approver_name, accepted, run_pc,
                   run_result, update_log, approved_in_flight>>
    /\ UNCHANGED qvars

\* execute_activity(call_greeting_service) raises (timeout, service error)
ActivityRaises(i) ==
    /\ Running
    /\ handlers[i].pc = "activity"
    /\ HandlerFails(i, "ActivityError")
    /\ UNCHANGED <<approved_for_release, approver_name, accepted, run_pc,
                   run_result, update_log, approved_in_flight>>
    /\ UNCHANGED qvars

\* as RunCondition, without waiting for the handlers to finish
RunCondition_ApprovedOnly == approved_for_release

\* the lambda run waits on
RunCondition == approved_for_release /\ all_handlers_finished

\* run: wait_condition is satisfied; return self.greetings[self.language]
run ==
    /\ Running
    /\ RunCondition
    /\ run_pc' = "returned"
    /\ run_result' = IF language \in DOMAIN greetings
                     THEN greetings[language] ELSE "KeyError"
    /\ UNCHANGED <<approved_for_release, approver_name, greetings, language,
                   lock_holder, lock_waiters, handlers, accepted, update_log,
                   swaps, approved_in_flight>>
    /\ UNCHANGED qvars

Init == QInit /\ GInit

GreetingNext ==
    \/ \E name \in Approvers : approve(name)
    \/ \E l \in Language : set_language(l)
    \/ \E l \in Language : set_language_using_activity(l)
    \/ \E i \in HandlerIds, g \in ServiceGreetings \cup {None} :
          ActivityReturns(i, g)
    \/ \E i \in HandlerIds : ActivityRaises(i)
    \/ run

GreetingSpec == Init /\ [][GreetingNext]_vars

\* the activity of invocation i resolves, one way or the other
ActivityResolves(i) ==
    \/ \E g \in ServiceGreetings \cup {None} : ActivityReturns(i, g)
    \/ ActivityRaises(i)

\* every scheduled activity resolves (start_to_close_timeout bounds it) and
\* the worker keeps scheduling the run coroutine; nothing forces callers to
\* send signals or updates
GreetingFairness ==
    /\ \A i \in HandlerIds : WF_vars(ActivityResolves(i))
    /\ WF_vars(run)

GreetingLiveSpec == GreetingSpec /\ GreetingFairness

(* ----------------------------- specifications -------------------------- *)
QueueNext ==
    \/ \E id \in Ids, input \in Inputs : request(Request(id, input))
    \/ \E id \in Ids : set_response(id, Spoof)
    \/ WaitCondition
    \/ Dequeue
    \/ ActivitySuccess
    \/ ActivityFailure
    \/ Drained
    \/ ContinueAsNew
    \/ LoopAgain

QueueSpec == Init /\ [][QueueNext]_vars

\* the worker keeps scheduling the run coroutine, and every activity resolves
\* (schedule_to_close_timeout bounds it); nothing forces callers to send
QueueFairness ==
    /\ WF_vars(WaitCondition)
    /\ WF_vars(Dequeue)
    /\ WF_vars(ActivitySuccess \/ ActivityFailure)
    /\ WF_vars(Drained)
    /\ WF_vars(ContinueAsNew)
    /\ WF_vars(LoopAgain)

QueueLiveSpec == QueueSpec /\ QueueFairness

(* ------------------- properties of the request queue ------------------- *)
\* a continue-as-new step: the run of one generation ends, the next begins
IsContinueAsNewStep == generation' = generation + 1

\* out is the upper-case transform of in, character by character
IsUpperOf(out, in) ==
    /\ Len(out) = Len(in)
    /\ \A i \in 1..Len(in) : out[i] = UpperChar(in[i])

\* C1: every continue-as-new step carries each (id, result) pair of
\* responses_map unchanged into the responses_map the next generation starts
\* with, so get_response answers the same for every id answered before it.
C1_CompactionPreservesResponses ==
    [][IsContinueAsNewStep =>
        /\ \A id \in DOMAIN responses_map :
              /\ id \in DOMAIN responses_map'
              /\ responses_map'[id] = responses_map[id]
        /\ \A id \in Ids : get_response(id)' = get_response(id)]_vars

\* a second generation boundary has been crossed with answers in the table
C1_Witness == generation >= 2 /\ DOMAIN responses_map = Ids

\* C2: under fair scheduling of the run coroutine and resolution of every
\* activity, every request signalled is eventually processed (again and again
\* the number processed catches up with the number signalled, in whatever
\* generation), and the step that processes a request either leaves the
\* table alone because its activity failed, or leaves the upper-case
\* transform of its input in responses_map under its id.
C2_EveryRequestAnswered ==
    /\ []<>(finished = enqueued)
    /\ [][finished' # finished =>
            /\ finished' = finished + 1
            /\ last_done'.n = finished'
            /\ last_done'.req = req
            /\ IF last_done'.ok
               THEN /\ req.id \in DOMAIN responses_map'
                    /\ IsUpperOf(responses_map'[req.id], req.input)
               ELSE responses_map' = responses_map]_vars

\* a request of a later generation has just been answered with its transform
C2_Witness ==
    /\ generation >= 1
    /\ request_count >= 1
    /\ pc = "loop"
    /\ last_done.ok
    /\ last_done.req.input = Foo0
    /\ get_response(last_done.req.id) = <<"F", "O", "O", "0">>

\* C3: whenever continue-as-new fires, requests_buffer is empty, no activity
\* is outstanding and every request signalled so far has been processed, so
\* the buffer the generation leaves behind holds no unprocessed request.
C3_CompactionLosesNoWork ==
    [][IsContinueAsNewStep =>
        /\ requests_buffer = <<>>
        /\ outstanding = 0
        /\ finished = enqueued]_vars

\* continue-as-new is about to fire in a generation that received a request
\* signal while its drain loop was suspended on an activity
C3_Witness == pc = "check" /\ ShouldContinueAsNew /\ signalled_in_flight

\* C4: continue-as-new fires only from a state with request_count >= 5 and
\* pending_updates = 0, and never while an activity is outstanding.
C4_CompactionGuard ==
    [][IsContinueAsNewStep =>
        /\ request_count >= 5
        /\ pending_updates = 0
        /\ outstanding = 0
        /\ pc = "check"]_vars

\* the first generation has ended after exactly the threshold was dequeued
C4_Witness == generation = 1 /\ finished = 5 /\ request_count = 0

\* C5: every id in responses_map is the id of a request the drain loop
\* dequeued and whose activity completed with its result committed; no entry
\* was written by an external caller.
C5_TableOnlyCommitted ==
    \A id \in DOMAIN responses_map :
        /\ id \in committed_ids
        /\ responses_map[id] # Spoof

(* ------------------- properties of the greeting workflow --------------- *)
\* a set_language update was delivered with argument l in this step
IsSetLanguageStep(l) ==
    update_log' # update_log /\ update_log'.arg = l

\* C6: set_language with a language that is not a key of greetings is
\* rejected by the validator and changes nothing of language, greetings,
\* approved_for_release and approver_name; with a key of greetings it sets
\* language to the argument and returns the language current before it.
C6_SetLanguageValidated ==
    [][\A l \in Language : IsSetLanguageStep(l) =>
        IF l \notin DOMAIN greetings
        THEN /\ update_log'.outcome = "rejected"
             /\ UNCHANGED <<language, greetings, approved_for_release,
                            approver_name>>
        ELSE /\ update_log'.outcome = "completed"
             /\ update_log'.ret = language
             /\ language' = l
             /\ UNCHANGED <<greetings, approved_for_release,
                            approver_name>>]_vars

\* an unsupported language was rejected after a supported one was set
C6_Witness ==
    /\ update_log.outcome = "rejected"
    /\ update_log.arg = "PORTUGUESE"
    /\ language = "CHINESE"
    /\ "PORTUGUESE" \notin DOMAIN greetings

\* C7: run has returned only if approve was received and no
\* set_language_using_activity invocation is waiting on the lock or on its
\* activity, and what it returned is greetings[language] as the finished
\* invocations left them.
C7_ResultOnlyWhenQuiescent ==
    run_pc = "returned" =>
        /\ approved_for_release
        /\ all_handlers_finished
        /\ language \in DOMAIN greetings
        /\ run_result = greetings[language]

\* approve arrived while an invocation for an unmapped language was in
\* flight, and run returned the greeting that invocation inserted
C7_Witness ==
    /\ run_pc = "returned"
    /\ approved_in_flight
    /\ handlers[1].pc = "done"
    /\ handlers[1].lang = "FRENCH"
    /\ language = "FRENCH"
    /\ run_result = "Bonjour, monde"

\* C8: language is always a key of greetings, no key is ever removed from
\* greetings, and so run's read of greetings[language] finds its key.
C8_LanguageAlwaysMapped ==
    /\ [](language \in DOMAIN greetings)
    /\ [](run_pc = "returned" => run_result # "KeyError")
    /\ [][DOMAIN greetings \subseteq DOMAIN greetings']_vars

\* run returned after one invocation failed, one inserted a language and a
\* set_language for an unsupported language was rejected
C8_Witness ==
    /\ run_pc = "returned"
    /\ \E i, j \in HandlerIds :
          handlers[i].pc = "failed" /\ handlers[j].pc = "done"
    /\ update_log.outcome = "rejected"
    /\ Cardinality(DOMAIN greetings) = 3

\* invocation i of set_language_using_activity ends with an error in this step
IsHandlerFailStep(i) ==
    handlers[i].pc = "activity" /\ handlers'[i].pc = "failed"

\* C9: when the activity of an invocation for an unmapped language returns
\* None or raises, the invocation fails, greetings and language are left
\* as they were, and the lock is released: it goes to the first waiting
\* invocation, which starts its activity, or is free for a later one.
C9_FailureLeavesStateAndLock ==
    [][\A i \in HandlerIds : IsHandlerFailStep(i) =>
        /\ handlers'[i].err \in {"ApplicationError", "ActivityError"}
        /\ UNCHANGED <<greetings, language>>
        /\ lock_holder = i
        /\ lock_holder' # i
        /\ IF lock_waiters = <<>>
           THEN lock_holder' = 0
           ELSE /\ lock_holder' = Head(lock_waiters)
                /\ handlers'[Head(lock_waiters)].pc = "activity"]_vars

\* the first invocation failed and the one that waited behind it holds the lock
C9_Witness ==
    /\ handlers[1].pc = "failed"
    /\ 1 \in handlers[2].overlapped
    /\ handlers[2].pc = "activity"
    /\ lock_holder = 2
    /\ language = "ENGLISH"
    /\ DOMAIN greetings = {"CHINESE", "ENGLISH"}

\* position of invocation i in the order of swaps, 0 when it has not swapped
SwapIndex(i) ==
    IF \E k \in 1..Len(swaps) : swaps[k] = i
    THEN CHOOSE k \in 1..Len(swaps) : swaps[k] = i
    ELSE 0

\* C10: of two invocations of set_language_using_activity, B accepted while
\* A was in flight, B does not swap language before A has left (swapped or
\* failed), and when both swap A's swap comes first and B returns A's
\* language as the previous one.
C10_SwapsInSubmissionOrder ==
    \A a, b \in HandlerIds :
        (a \in handlers[b].overlapped /\ handlers[b].pc = "done") =>
            /\ ~InFlight(a)
            /\ handlers[a].pc = "done" =>
                  /\ SwapIndex(a) < SwapIndex(b)
                  /\ (SwapIndex(b) = SwapIndex(a) + 1
                        /\ update_log.outcome = "none")
                        => handlers[b].ret = handlers[a].lang

\* the invocations whose call_greeting_service activity is outstanding
InActivity == {i \in HandlerIds : handlers[i].pc = "activity"}

\* C11: at most one activity started by set_language_using_activity is
\* outstanding, the invocation it belongs to holds the lock, and every other
\* unfinished invocation is waiting for the lock behind it.
C11_OneGatewayCallAtATime ==
    /\ Cardinality(InActivity) <= 1
    /\ \A i \in InActivity : lock_holder = i
    /\ \A i \in HandlerIds :
          handlers[i].pc = "lockwait" =>
              /\ InActivity # {}
              /\ \E k \in 1..Len(lock_waiters) : lock_waiters[k] = i

\* one invocation is in its activity while a second one waits for the lock
C11_Witness ==
    /\ handlers[1].pc = "activity"
    /\ handlers[2].pc = "lockwait"
    /\ lock_holder = 1
    /\ lock_waiters = <<2>>

\* C12: of two invocations for the same language, unmapped when each was
\* accepted and B accepted while A was in flight, B starts its activity only
\* after A has left the lock, and once A has inserted the language B neither
\* fails nor leaves a different greeting for it.
C12_SameLanguageTwice ==
    \A a, b \in HandlerIds :
        (/\ a \in handlers[b].overlapped
         /\ handlers[a].lang = handlers[b].lang
         /\ handlers[b].pc \in {"activity", "done", "failed"}) =>
            /\ ~InFlight(a)
            /\ handlers[a].pc = "done" =>
                  /\ handlers[b].pc # "failed"
                  /\ handlers[b].lang \in DOMAIN greetings
                  /\ greetings[handlers[b].lang] \in ServiceGreetings

\* C17: an invocation of set_language_using_activity whose activity is
\* outstanding asked for a language that is not a key of greetings, also
\* when it waited for the lock while another invocation inserted it.
C17_NoGatewayCallForMappedLanguage ==
    \A i \in HandlerIds :
        handlers[i].pc = "activity" => handlers[i].lang \notin DOMAIN greetings

\* an invocation of set_language_using_activity was accepted in this step
IsAcceptStep == accepted' = accepted + 1

\* C14: an invocation of set_language_using_activity for a language that is a
\* key of greetings when it is accepted finishes in the same step, as
\* set_language does: language becomes the argument, the previous language
\* is returned, greetings and the lock are untouched and no activity starts.
C14_MappedLanguageLikeSetLanguage ==
    [][(IsAcceptStep /\ handlers'[accepted'].lang \in DOMAIN greetings) =>
        /\ handlers'[accepted'].pc = "done"
        /\ handlers'[accepted'].ret = language
        /\ language' = handlers'[accepted'].lang
        /\ UNCHANGED <<greetings, lock_holder, lock_waiters>>
        /\ InActivity' = InActivity]_vars

\* an invocation for a mapped language finished while the lock was held by
\* another invocation's activity
C14_Witness ==
    /\ handlers[1].pc = "activity"
    /\ lock_holder = 1
    /\ handlers[2].pc = "done"
    /\ handlers[2].lang = "CHINESE"
    /\ handlers[2].ret = "ENGLISH"
    /\ language = "CHINESE"

(* ---------------- further properties of the request queue -------------- *)
\* the activity of the request being processed failed in this step
IsActivityFailureStep == finished' # finished /\ ~last_done'.ok

\* C13: when the activity of a request fails, the step that handles it
\* writes nothing into responses_map, does not put the request back into
\* requests_buffer, decrements pending_updates, and leaves the run coroutine
\* at the drain loop's test in the same generation, where a buffered request
\* is dequeued next.
C13_FailureCaughtPerRequest ==
    /\ []((pc = "loop" /\ requests_buffer # <<>>) => ENABLED Dequeue)
    /\ [][IsActivityFailureStep =>
            /\ responses_map' = responses_map
            /\ requests_buffer' = requests_buffer
            /\ pending_updates' = pending_updates - 1
            /\ outstanding' = 0
            /\ generation' = generation
            /\ request_count' = request_count
            /\ pc' = "loop"]_vars

\* after a failed request, which left no entry, the next buffered request of
\* the same generation is in its activity
C13_Witness ==
    /\ pc = "activity"
    /\ ~last_done.ok
    /\ last_done.n >= 1
    /\ last_done.req.id \notin DOMAIN responses_map
    /\ request_count >= 2

\* C15: the run coroutine never waits for a request with request_count at
\* the threshold or above, and, under fair scheduling, once the drain loop is
\* left with request_count >= 5 continue-as-new fires: the next generation
\* starts, with no further request needed.
C15_CompactionFiresAfterThreshold ==
    /\ [](pc = "wait" => request_count < 5)
    /\ (pc = "check" /\ request_count >= 5)
          ~> (pc = "wait" /\ request_count = 0)

\* the first generation ended after exactly five requests, none arriving later
C15_Witness ==
    /\ generation = 1
    /\ enqueued = 5
    /\ pc = "wait"
    /\ requests_buffer = <<>>

\* C16: request signals append at the tail of requests_buffer, the drain loop
\* takes the head and starts its activity only when none is outstanding, so
\* requests are processed one at a time in arrival order; a result committed
\* for an id replaces the one an earlier request with that id left.
C16_FifoOneAtATime ==
    /\ [](outstanding <= 1)
    /\ [][/\ enqueued' # enqueued =>
              /\ Len(requests_buffer') = Len(requests_buffer) + 1
              /\ SubSeq(requests_buffer', 1, Len(requests_buffer))
                    = requests_buffer
          /\ outstanding' > outstanding =>
              /\ outstanding = 0
              /\ requests_buffer # <<>>
              /\ req' = Head(requests_buffer)
              /\ requests_buffer' = Tail(requests_buffer)
          /\ (finished' # finished /\ last_done'.ok) =>
              /\ last_done'.req = req
              /\ req.id \in DOMAIN responses_map'
              /\ IsUpperOf(responses_map'[req.id], req.input)]_vars

\* a request for id a was answered, and a later request with the same id,
\* signalled while the first was in its activity, is now in its activity
C16_Witness ==
    /\ pc = "activity"
    /\ signalled_in_flight
    /\ last_done.ok
    /\ last_done.req = Request("a", Foo0)
    /\ req = Request("a", Ab)
    /\ get_response("a") = <<"F", "O", "O", "0">>

\* C18: pending_updates is never negative, equals the number of activities
\* outstanding, and is at most 1: it is 1 exactly while the run coroutine
\* awaits an activity.
C18_PendingCountsOutstanding ==
    /\ pending_updates >= 0
    /\ pending_updates = outstanding
    /\ pending_updates <= 1
    /\ (pending_updates = 1) <=> (pc = "activity")

\* a second request is in its activity while another one waits in the buffer
C18_Witness ==
    /\ pending_updates = 1
    /\ finished >= 1
    /\ requests_buffer # <<>>

\* C19: a continue-as-new step carries responses_map and nothing else: the
\* next generation starts with request_count = 0, pending_updates = 0 and an
\* empty buffer; request_count goes up by one per dequeued request whether
\* its activity succeeds or fails, so each generation that ended processed
\* at least five requests.
C19_CompactionResetsCounters ==
    /\ [](generation * 5 <= finished)
    /\ [][/\ IsContinueAsNewStep =>
              /\ request_count' = 0
              /\ pending_updates' = 0
              /\ requests_buffer' = <<>>
              /\ responses_map' = responses_map
          /\ outstanding' > outstanding =>
              request_count' = request_count + 1
          /\ finished' # finished => request_count' = request_count]_vars

\* the second generation ended after ten requests, the last of which failed
C19_Witness ==
    /\ generation = 2
    /\ finished = 10
    /\ ~last_done.ok
    /\ request_count = 0

\* C20: under fair scheduling, with every activity resolving and the bounded
\* number of updates, again and again no invocation of
\* set_language_using_activity is left waiting on the lock or on its
\* activity, whichever way the invocations before it left the lock, and if
\* approve has been received run has returned.
C20_NoDeadlockOnLock ==
    []<>(/\ all_handlers_finished
         /\ approved_for_release => run_pc = "returned")

\* run returned after an invocation that had waited for the lock behind a
\* failing one went on to finish
C20_Witness ==
    /\ run_pc = "returned"
    /\ handlers[1].pc = "failed"
    /\ 1 \in handlers[2].overlapped
    /\ handlers[2].lang \notin {"CHINESE", "ENGLISH"}
    /\ handlers[2].pc = "done"
====
